---- MODULE Spec2Model ----
(***************************************************************************)
(* State-machine model of the task manager (src/git.py, src/main.py):      *)
(* the process table with its filter, sort and selection restore, the      *)
(* chart buffers, the history table, and the process control handlers.     *)
(*                                                                         *)
(* Text is a sequence of one-character strings, so that lower(), strip(),  *)
(* str(), int() and the substring test are computed, not assumed.          *)
(* An optional value (Python None) is <<>>, a present value v is <<v>>.    *)
(***************************************************************************)
EXTENDS Integers, Sequences, FiniteSets, TLC

\* ---------------------------------------------------------------- bounds
MaxQLen == 2            \* longest text typed in the search box
MaxTicks == 1           \* auto_refresh timer firings explored by Spec
MaxClicks == 2          \* selection changes by the user between two refreshes in Spec
MaxHistTicks == 102     \* auto_refresh timer firings explored by SpecHistory
MaxGraphPushes == 42    \* PerfGraph.update_graph calls explored by SpecChart
MaxChartPushes == 32    \* MiniProcChart.push calls explored by SpecChart
MaxBasicPushes == 22    \* main.py PerfGraph.update_graph calls explored by SpecChart
MaxProviderTicks == 2   \* auto_refresh timer firings explored by SpecProvider

\* ------------------------------------------------------ program constants
GraphCap == 40          \* git.py PerfGraph
ChartMaxlen == 30       \* git.py MiniProcChart(maxlen=30)
BasicGraphCap == 20     \* main.py PerfGraph
HistoryCap == 500       \* git.py refresh_history_log
TopN == 5               \* git.py refresh_history_log [:5]

\* ------------------------------------------------------------------ text
None == <<>>
Some(v) == <<v>>
IsNone(o) == o = <<>>

UpperLetters == <<"A","B","C","D","E","F","G","H","I","J","K","L","M",
                  "N","O","P","Q","R","S","T","U","V","W","X","Y","Z">>
LowerLetters == <<"a","b","c","d","e","f","g","h","i","j","k","l","m",
                  "n","o","p","q","r","s","t","u","v","w","x","y","z">>

\* str.lower() on one character
LowerChar(c) ==
    IF \E i \in 1..26 : UpperLetters[i] = c
    THEN LowerLetters[CHOOSE i \in 1..26 : UpperLetters[i] = c]
    ELSE c

\* str.lower()
Lower(s) == [i \in 1..Len(s) |-> LowerChar(s[i])]

IsSpace(c) == c = " "

\* str.strip(): drop leading and trailing whitespace
Strip(s) ==
    LET keep == {i \in 1..Len(s) : ~IsSpace(s[i])}
    IN  IF keep = {} THEN <<>>
        ELSE LET lo == CHOOSE i \in keep : \A j \in keep : i <= j
                 hi == CHOOSE i \in keep : \A j \in keep : j <= i
             IN  SubSeq(s, lo, hi)

\* Python's `needle in hay` on strings
Contains(hay, needle) ==
    \E i \in 1..(Len(hay) - Len(needle) + 1) :
        SubSeq(hay, i, i + Len(needle) - 1) = needle

Digits == <<"0","1","2","3","4","5","6","7","8","9">>

RECURSIVE NatStr(_)
NatStr(n) == IF n < 10 THEN <<Digits[n + 1]>>
             ELSE NatStr(n \div 10) \o <<Digits[(n % 10) + 1]>>

\* str(int)
IntStr(n) == IF n < 0 THEN <<"-">> \o NatStr(0 - n) ELSE NatStr(n)

\* str(float) of a whole-valued float: 50.0 -> "50.0"
FloatStr(n) == IntStr(n) \o <<".", "0">>

DigitVal(c) == (CHOOSE i \in 1..10 : Digits[i] = c) - 1
IsDigit(c) == \E i \in 1..10 : Digits[i] = c

RECURSIVE ParseNat(_)
ParseNat(s) == IF Len(s) = 0 THEN 0
               ELSE 10 * ParseNat(SubSeq(s, 1, Len(s) - 1)) + DigitVal(s[Len(s)])

\* int(text): <<value>>, or None where Python raises ValueError
ParseInt(s) ==
    IF Len(s) > 0 /\ \A i \in 1..Len(s) : IsDigit(s[i])
    THEN Some(ParseNat(s)) ELSE None

\* " ".join(list)
RECURSIVE Join(_)
Join(l) == IF Len(l) = 0 THEN <<>>
           ELSE IF Len(l) = 1 THEN l[1]
           ELSE l[1] \o <<" ">> \o Join(Tail(l))

Units == << <<"B">>, <<"K","B">>, <<"M","B">>, <<"G","B">>, <<"T","B">> >>

RECURSIVE Pow1024(_)
Pow1024(i) == IF i = 0 THEN 1 ELSE 1024 * Pow1024(i - 1)

\* the unit index human_bytes' while loop stops at
RECURSIVE UnitIndex(_, _)
UnitIndex(n, i) == IF n >= 1024 * Pow1024(i) /\ i < Len(Units) - 1
                   THEN UnitIndex(n, i + 1) ELSE i

\* human_bytes(n): f"{n:.2f} {unit}", n scaled by 1024 per unit step
human_bytes(n) ==
    LET i == UnitIndex(n, 0)
        d == Pow1024(i)
        h == (200 * n + d) \div (2 * d)          \* hundredths, rounded
        frac == h % 100
    IN  IntStr(h \div 100) \o <<".">> \o <<Digits[(frac \div 10) + 1]>>
          \o <<Digits[(frac % 10) + 1]>> \o <<" ">> \o Units[i + 1]

\* `x or ""` on an optional string
OrEmpty(o) == IF IsNone(o) THEN <<>> ELSE o[1]
\* `x or 0` on an optional number
OrZero(o) == IF IsNone(o) THEN 0 ELSE o[1]

\* ------------------------------------------------------------ the state
VARIABLES
    procs,          \* OS: the live processes, in the provider's enumeration order
    platform,       \* OS: platform.system()
    provider_ok,    \* OS: FALSE while psutil.process_iter fails as a whole
    users_ok,       \* OS: FALSE while psutil.users() fails
    search_text,    \* search_edit.text()
    proc_table,     \* proc_table: sequence of rows, each 14 cell texts
    selected,       \* selected row of proc_table (1-based), 0 when none
    details_text,   \* details_text contents
    proc_chart,     \* MiniProcChart: cpu_data, mem_data, times
    users_table,    \* users_table rows
    history_table,  \* history_table rows
    history_log,    \* every row ever appended to history_table, in order
    now,            \* clock: auto_refresh periods elapsed
    pc,             \* "idle", "menu" (menu.exec_ open) or "msgbox" (modal box open)
    menu,           \* process_context_menu locals: row and pid
    pending,        \* the control handler waiting in its message box
    ret,            \* the control handler that returned in the last step
    crashed,        \* an exception escaped a handler
    last,           \* name of the handler that ran in the last step
    selected_pid,   \* refresh_processes local selected_pid of its last run
    sample,         \* the last refresh_processes run: did process_iter fail, did
                    \* it fail in the run before, did the run raise
    graph,          \* git.py PerfGraph: x_data, cpu_data, mem_data
    graph_n,        \* perf_timer firings so far
    chart_n,        \* pushes made by the chart driver of SpecChart
    basic_graph,    \* main.py PerfGraph: x_data, y_data
    basic_n         \* main.py perf_timer firings so far

osVars == <<procs, platform, provider_ok, users_ok>>
tableVars == <<search_text, proc_table, selected, details_text, proc_chart,
               selected_pid, sample>>
histVars == <<history_table, history_log>>
ctlVars == <<pc, menu, pending>>
graphVars == <<graph, graph_n, chart_n, basic_graph, basic_n>>
vars == <<procs, platform, provider_ok, users_ok, sample, search_text, proc_table, selected,
          details_text, proc_chart, users_table, history_table, history_log,
          now, pc, menu, pending, ret, crashed, last, selected_pid,
          graph, graph_n, chart_n, basic_graph, basic_n>>

\* ------------------------------------------------- the OS metrics provider
\* One process as psutil reports it: p.info fields are optional (None where
\* the provider could not read them); `denied` marks a process whose direct
\* queries and control calls raise AccessDenied.
Proc(pid, name, username, cmdline, cpu, threads, nice, denied) ==
    [pid |-> pid, name |-> name, username |-> username, cmdline |-> cmdline,
     cpu_percent |-> cpu, memory_percent |-> IF denied THEN None ELSE Some(1),
     num_threads |-> threads, create_time |-> Some(7),
     status |-> Some(<<"s","l","e","e","p","i","n","g">>),
     io_counters |-> IF denied THEN None
                     ELSE Some([read_bytes |-> 0, write_bytes |-> 2048]),
     exe |-> IF denied THEN None ELSE Some(<<"/","a">>),
     nice |-> nice, denied |-> denied]

Pids == {1, 2, 3}

\* The processes a snapshot of SpecFilter is drawn from: mixed-case names,
\* missing fields, equal and missing cpu_percent.
FilterProfiles(pid) ==
    { Proc(pid, Some(<<"a","B">>), Some(<<"u">>), Some(<< <<"a">>, <<"1">> >>),
           Some(10), Some(1), Some(0), FALSE),
      Proc(pid, Some(<<"a","B">>), Some(<<"B">>), Some(<< <<"x">> >>),
           Some(50), Some(1), Some(0), FALSE),
      Proc(pid, None, None, None, None, None, None, TRUE),
      Proc(pid, Some(<<"2">>), Some(<<"u">>), Some(<<>>),
           Some(0), Some(3), Some(5), FALSE),
      Proc(pid, Some(<<"x"," ","a">>), None, Some(<< <<"B">>, <<"a">> >>),
           Some(50), Some(2), Some(0), FALSE) }

\* The processes of Spec: pid 1 is a system process (queries and control are
\* denied), pid 2 and pid 3 are the user's own; pid 1 and pid 3 run 2 threads.
\* Each pid has a cpu_percent of its own, so a chart point tells its process,
\* and pid 2 and pid 3 run different executables.
BootProfile(pid) ==
    CASE pid = 1 -> Proc(1, Some(<<"i","n","i","t">>), None, None,
                         Some(10), Some(2), None, TRUE)
      [] pid = 2 -> Proc(2, Some(<<"a","B">>), Some(<<"u">>),
                         Some(<< <<"a">>, <<"1">> >>), Some(50), Some(1), Some(0), FALSE)
      [] OTHER   -> [Proc(pid, Some(<<"s","h">>), Some(<<"u">>),
                          Some(<< <<"s","h">> >>), Some(40), Some(2), Some(0), FALSE)
                       EXCEPT !.exe = Some(<<"/","s","h">>)]

PidsOf(ps) == {ps[i].pid : i \in 1..Len(ps)}
Alive(ps, pid) == pid \in PidsOf(ps)
ProcOf(ps, pid) == ps[CHOOSE i \in 1..Len(ps) : ps[i].pid = pid]
Without(ps, pid) == SelectSeq(ps, LAMBDA p : p.pid # pid)

\* a provider failure that leaves the enumerated processes in place
SnapshotIgnoringFailure(ps, ok) == ps

\* psutil.process_iter(...) collected into procs; [] when the call fails
Snapshot(ps, ok) == IF ok THEN ps ELSE <<>>

\* -------------------------------------------------------- filter and sort
\* q = self.search_edit.text().lower().strip()
FilterText(text) == Strip(Lower(text))

\* a filter that forgets the user and command-line columns
RowMatchesNameOnly(p, q) ==
    Len(q) = 0 \/ Contains(Lower(OrEmpty(p.name)), q) \/ Contains(IntStr(p.pid), q)

\* a filter that also searches the executable path
RowMatchesAlsoPath(p, q) ==
    \/ Len(q) = 0
    \/ Contains(Lower(OrEmpty(p.name)), q)
    \/ Contains(IntStr(p.pid), q)
    \/ Contains(Lower(OrEmpty(p.username)), q)
    \/ Contains(Lower(Join(OrEmpty(p.cmdline))), q)
    \/ Contains(Lower(OrEmpty(p.exe)), q)

\* not q or q in name or q in pidstr or q in user or q in cmdline
RowMatches(p, q) ==
    LET name == Lower(OrEmpty(p.name))
        pidstr == IntStr(p.pid)
        user == Lower(OrEmpty(p.username))
        cmdline == Lower(Join(OrEmpty(p.cmdline)))
    IN  \/ Len(q) = 0
        \/ Contains(name, q)
        \/ Contains(pidstr, q)
        \/ Contains(user, q)
        \/ Contains(cmdline, q)

Filtered(ps, q) == SelectSeq(ps, LAMBDA p : RowMatches(p, q))

\* key=lambda x: x.info.get('cpu_percent') or 0
CpuKey(p) == OrZero(p.cpu_percent)

\* a sort that puts a row before the rows of equal key
InsertBeforeEqual(sorted, p) ==
    LET c == Cardinality({i \in 1..Len(sorted) : CpuKey(sorted[i]) > CpuKey(p)})
    IN  SubSeq(sorted, 1, c) \o <<p>> \o SubSeq(sorted, c + 1, Len(sorted))

\* one step of the stable descending sort: p goes after every row whose key
\* is greater or equal
InsertByCpu(sorted, p) ==
    LET c == Cardinality({i \in 1..Len(sorted) : CpuKey(sorted[i]) >= CpuKey(p)})
    IN  SubSeq(sorted, 1, c) \o <<p>> \o SubSeq(sorted, c + 1, Len(sorted))

\* list.sort(key=..., reverse=True): stable, descending
RECURSIVE SortByCpuDesc(_)
SortByCpuDesc(ps) ==
    IF Len(ps) = 0 THEN <<>>
    ELSE InsertByCpu(SortByCpuDesc(SubSeq(ps, 1, Len(ps) - 1)), ps[Len(ps)])

\* ------------------------------------------------------------- rendering
ColPid == 1
ColName == 2
ColUser == 3
ColCpu == 4
ColMem == 5
ColThreads == 6
ColStart == 7
ColStatus == 8
ColRead == 9
ColWrite == 10
ColGpu == 11
ColPath == 12
ColCmdline == 13
ColNice == 14
NumCols == 14

\* datetime.fromtimestamp(t).strftime("%Y-%m-%d %H:%M:%S"), t below 60, UTC
StartText(t) ==
    <<"1","9","7","0","-","0","1","-","0","1"," ","0","0",":","0","0",":">>
      \o <<Digits[(t \div 10) + 1], Digits[(t % 10) + 1]>>

\* the 14 QTableWidgetItem texts of one process
RenderRow(p) ==
    << IntStr(p.pid),
       OrEmpty(p.name),
       OrEmpty(p.username),
       FloatStr(OrZero(p.cpu_percent)),
       FloatStr(OrZero(p.memory_percent)),
       IntStr(OrZero(p.num_threads)),
       IF OrZero(p.create_time) # 0 THEN StartText(p.create_time[1]) ELSE <<>>,
       OrEmpty(p.status),
       IF IsNone(p.io_counters) THEN <<"0"," ","B">>
          ELSE human_bytes(p.io_counters[1].read_bytes),
       IF IsNone(p.io_counters) THEN <<"0"," ","B">>
          ELSE human_bytes(p.io_counters[1].write_bytes),
       FloatStr(0),
       OrEmpty(p.exe),
       Join(OrEmpty(p.cmdline)),
       IF OrZero(p.nice) = 0 THEN <<>> ELSE IntStr(p.nice[1]) >>

RenderTable(ps) == [i \in 1..Len(ps) |-> RenderRow(ps[i])]

\* the pid column, parsed back
RowPid(table, r) == ParseInt(table[r][ColPid])
TablePids(table) == [r \in 1..Len(table) |-> RowPid(table, r)[1]]

\* ----------------------------------------------------------- MiniProcChart
EmptyChart == [cpu_data |-> <<>>, mem_data |-> <<>>, times |-> <<>>]

\* a push that on overflow drops the oldest label only
MiniProcChart_push_times_only(ch, cpu, mem, t) ==
    LET a == [cpu_data |-> Append(ch.cpu_data, cpu),
              mem_data |-> Append(ch.mem_data, mem),
              times |-> Append(ch.times, t)]
    IN  IF Len(a.times) > ChartMaxlen
        THEN [cpu_data |-> a.cpu_data, mem_data |-> a.mem_data, times |-> Tail(a.times)]
        ELSE a

\* MiniProcChart.push
MiniProcChart_push(ch, cpu, mem, t) ==
    LET a == [cpu_data |-> Append(ch.cpu_data, cpu),
              mem_data |-> Append(ch.mem_data, mem),
              times |-> Append(ch.times, t)]
    IN  IF Len(a.times) > ChartMaxlen
        THEN [cpu_data |-> Tail(a.cpu_data), mem_data |-> Tail(a.mem_data),
              times |-> Tail(a.times)]
        ELSE a

\* MiniProcChart.clear
MiniProcChart_clear == EmptyChart

\* ---------------------------------------------------------------- clock
TwoDigits(n) == <<Digits[(n \div 10) + 1], Digits[(n % 10) + 1]>>

\* datetime.now().strftime("%H:%M:%S"), `secs` seconds after midnight
TimeText(secs) ==
    LET d == secs % 86400
    IN  TwoDigits(d \div 3600) \o <<":">> \o TwoDigits((d % 3600) \div 60)
          \o <<":">> \o TwoDigits(d % 60)

\* REFRESH_INTERVAL_MS = 2000: the clock reading at auto_refresh period t
TickTime(t) == TimeText(2 * t)

\* ------------------------------------------------- update_selected_details
NoSelectionText == [kind |-> "No process selected.", pid |-> 0]
EndedText == [kind |-> "Process ended or not accessible.", pid |-> 0]
DetailsOf(pid) == [kind |-> "details", pid |-> pid]

\* The details pane and chart after update_selected_details runs with row
\* `sel` selected; st = [details, chart, raised]. name(), username(), status(),
\* create_time() and num_threads() are called outside any try block, so a
\* denied process makes the call raise.
update_selected_details(st, table, sel, ps, t) ==
    IF st.raised THEN st
    ELSE IF sel = 0
    THEN [details |-> NoSelectionText, chart |-> MiniProcChart_clear, raised |-> FALSE]
    ELSE LET pid == RowPid(table, sel)[1] IN
         IF ~Alive(ps, pid)
         THEN [details |-> EndedText, chart |-> MiniProcChart_clear, raised |-> FALSE]
         ELSE LET p == ProcOf(ps, pid) IN
              IF p.denied THEN [st EXCEPT !.raised = TRUE]
              ELSE [details |-> DetailsOf(pid),
                    chart |-> IF IsNone(p.cpu_percent) \/ IsNone(p.memory_percent)
                              THEN MiniProcChart_clear
                              ELSE MiniProcChart_push(st.chart, p.cpu_percent[1],
                                                      p.memory_percent[1], TickTime(t)),
                    raised |-> FALSE]

\* ------------------------------------------------------- refresh_processes
\* selected_pid = int(sel_items[0].text()), None without a selection
SelectedPid(table, sel) == IF sel = 0 THEN None ELSE RowPid(table, sel)

\* proc_table.findItems(text, MatchExactly): every cell is searched, column
\* by column; the row of the first hit, 0 when there is none
FindItemsFirstRow(table, text) ==
    LET hits == {rc \in (1..Len(table)) \X (1..NumCols) : table[rc[1]][rc[2]] = text}
    IN  IF hits = {} THEN 0
        ELSE LET first == CHOOSE h \in hits :
                            \A g \in hits : h[2] < g[2] \/ (h[2] = g[2] /\ h[1] <= g[1])
             IN  first[1]

\* the row proc_table.selectRow is called with, 0 when it is not called
RestoredRow(table, spid) ==
    IF IsNone(spid) THEN 0 ELSE FindItemsFirstRow(table, IntStr(spid[1]))

\* The widgets after one refresh_processes call. itemSelectionChanged is
\* connected to on_proc_selected, so setRowCount(0) on a table with a
\* selection and selectRow(r) each run update_selected_details before the
\* call at the end does.
refresh_processes(table, sel, details, chart, text, ps, ok, t) ==
    LET spid == SelectedPid(table, sel)
        q == FilterText(text)
        filtered == SortByCpuDesc(Filtered(Snapshot(ps, ok), q))
        newtable == RenderTable(filtered)
        st0 == [details |-> details, chart |-> chart, raised |-> FALSE]
        st1 == IF sel # 0 THEN update_selected_details(st0, <<>>, 0, ps, t) ELSE st0
        r == RestoredRow(newtable, spid)
        st2 == IF r # 0 THEN update_selected_details(st1, newtable, r, ps, t) ELSE st1
        st3 == update_selected_details(st2, newtable, r, ps, t)
    IN  [table |-> newtable, selected |-> r, details |-> st3.details,
         chart |-> st3.chart, raised |-> st3.raised, selected_pid |-> spid,
         failed |-> ~ok]

\* ------------------------------------------------------- time and history
NoneText == <<"N","o","n","e">>
\* str(x) of an optional number or text
StrOptNum(o) == IF IsNone(o) THEN NoneText ELSE FloatStr(o[1])
StrOptText(o) == IF IsNone(o) THEN NoneText ELSE o[1]

\* the six cells refresh_history_log writes for one process
HistoryRow(p, t) ==
    [time |-> TickTime(t), pid |-> IntStr(p.pid), name |-> StrOptText(p.name),
     cpu |-> StrOptNum(p.cpu_percent), mem |-> StrOptNum(p.memory_percent),
     gpu |-> <<"0">>]

\* the first five processes in enumeration order, unsorted
TopByEnumeration(ps) == SubSeq(ps, 1, IF Len(ps) < TopN THEN Len(ps) ELSE TopN)

\* sorted(..., key=cpu_percent or 0, reverse=True)[:5]
TopByCpu(ps) ==
    LET sorted == SortByCpuDesc(ps)
    IN  SubSeq(sorted, 1, IF Len(sorted) < TopN THEN Len(sorted) ELSE TopN)

\* an eviction that removes the newest row
HistoryEvictNewest(h) ==
    IF Len(h) > HistoryCap THEN SubSeq(h, 1, Len(h) - 1) ELSE h

\* if rowCount() > 500: removeRow(0)
HistoryEvict(h) == IF Len(h) > HistoryCap THEN Tail(h) ELSE h

\* the rows one refresh_history_log call appends; none when process_iter
\* raises (except Exception: pass)
HistoryAppended(ps, ok, t) ==
    IF ok THEN [i \in 1..Len(TopByCpu(ps)) |-> HistoryRow(TopByCpu(ps)[i], t)]
    ELSE <<>>

\* history_table after refresh_history_log
refresh_history_log(h, ps, ok, t) ==
    IF ok THEN HistoryEvict(h \o HistoryAppended(ps, ok, t)) ELSE h

\* -------------------------------------------------------------- PerfGraph
\* an update that pops as soon as the buffer is full
PerfGraph_update_graph_early(g, cpu, mem, t) ==
    LET a == [x_data |-> Append(g.x_data, t), cpu_data |-> Append(g.cpu_data, cpu),
              mem_data |-> Append(g.mem_data, mem)]
    IN  IF Len(a.x_data) >= GraphCap
        THEN [x_data |-> Tail(a.x_data), cpu_data |-> Tail(a.cpu_data),
              mem_data |-> Tail(a.mem_data)]
        ELSE a

\* git.py PerfGraph.update_graph
PerfGraph_update_graph(g, cpu, mem, t) ==
    LET a == [x_data |-> Append(g.x_data, t), cpu_data |-> Append(g.cpu_data, cpu),
              mem_data |-> Append(g.mem_data, mem)]
    IN  IF Len(a.x_data) > GraphCap
        THEN [x_data |-> Tail(a.x_data), cpu_data |-> Tail(a.cpu_data),
              mem_data |-> Tail(a.mem_data)]
        ELSE a

\* main.py PerfGraph.update_graph
BasicPerfGraph_update_graph(g, cpu, t) ==
    LET a == [x_data |-> Append(g.x_data, t), y_data |-> Append(g.y_data, cpu)]
    IN  IF Len(a.x_data) > BasicGraphCap
        THEN [x_data |-> Tail(a.x_data), y_data |-> Tail(a.y_data)]
        ELSE a

\* psutil.cpu_percent() and virtual_memory().percent at second t
SysCpu(t) == (7 * t) % 101
SysMem(t) == (3 * t + 1) % 100

\* ------------------------------------------------ process control calls
Labels == {"Low", "Normal", "High", "Realtime"}

\* set_priority_by_value, Unix branch: the if/elif chain ends in else: nice(-20)
UnixNice(label) ==
    IF label = "Low" THEN 19
    ELSE IF label = "Normal" THEN 0
    ELSE IF label = "High" THEN 0 - 5
    ELSE 0 - 20

\* set_priority_by_value, Windows branch: mapping.get(label, NORMAL_PRIORITY_CLASS)
WindowsPriorityClass(label) ==
    CASE label = "Low" -> 64
      [] label = "Normal" -> 32
      [] label = "High" -> 128
      [] label = "Realtime" -> 256
      [] OTHER -> 32

PriorityValue(plat, label) ==
    IF plat = "Windows" THEN WindowsPriorityClass(label) ELSE UnixNice(label)

SetNice(ps, pid, v) ==
    [i \in 1..Len(ps) |-> IF ps[i].pid = pid THEN [ps[i] EXCEPT !.nice = Some(v)]
                          ELSE ps[i]]

\* the psutil.Process method a handler calls on p
Request(handler) ==
    CASE handler = "terminate_pid" -> "terminate"
      [] handler = "kill_pid" -> "kill"
      [] handler = "suspend_pid" -> "suspend"
      [] handler = "resume_pid" -> "resume"
      [] OTHER -> "nice"

\* a terminate that escalates to kill when the wait times out
OsCallEscalating(handler, pid, label, ps, plat, exited) ==
    IF ~Alive(ps, pid)
    THEN [outcome |-> "NoSuchProcess", procs |-> ps, nice_arg |-> None, requests |-> <<>>]
    ELSE IF ProcOf(ps, pid).denied
    THEN [outcome |-> "AccessDenied", procs |-> ps, nice_arg |-> None,
          requests |-> <<Request(handler)>>]
    ELSE IF handler \in {"terminate_pid", "kill_pid"}
    THEN IF exited THEN [outcome |-> "ok", procs |-> Without(ps, pid), nice_arg |-> None,
                         requests |-> <<Request(handler)>>]
         ELSE [outcome |-> "TimeoutExpired", procs |-> Without(ps, pid),
               nice_arg |-> None, requests |-> <<Request(handler), "kill">>]
    ELSE IF handler = "set_priority_by_value"
    THEN [outcome |-> "ok", procs |-> SetNice(ps, pid, PriorityValue(plat, label)),
          nice_arg |-> Some(PriorityValue(plat, label)), requests |-> <<"nice">>]
    ELSE [outcome |-> "ok", procs |-> ps, nice_arg |-> None,
          requests |-> <<Request(handler)>>]

\* What psutil does for one control call: the exception raised ("ok" when
\* none), the processes afterwards and the methods called on p. `exited` says
\* whether the process is gone within p.wait(timeout=3).
OsCall(handler, pid, label, ps, plat, exited) ==
    IF ~Alive(ps, pid)
    THEN [outcome |-> "NoSuchProcess", procs |-> ps, nice_arg |-> None, requests |-> <<>>]
    ELSE IF ProcOf(ps, pid).denied
    THEN [outcome |-> "AccessDenied", procs |-> ps, nice_arg |-> None,
          requests |-> <<Request(handler)>>]
    ELSE IF handler \in {"terminate_pid", "kill_pid"}
    THEN IF exited THEN [outcome |-> "ok", procs |-> Without(ps, pid), nice_arg |-> None,
                         requests |-> <<Request(handler)>>]
         ELSE [outcome |-> "TimeoutExpired", procs |-> ps, nice_arg |-> None,
               requests |-> <<Request(handler)>>]
    ELSE IF handler = "set_priority_by_value"
    THEN [outcome |-> "ok", procs |-> SetNice(ps, pid, PriorityValue(plat, label)),
          nice_arg |-> Some(PriorityValue(plat, label)), requests |-> <<"nice">>]
    ELSE [outcome |-> "ok", procs |-> ps, nice_arg |-> None,
          requests |-> <<Request(handler)>>]

\* the text of the message box the handler shows for an outcome
MessageFor(handler, outcome) ==
    IF outcome = "ok"
    THEN CASE handler = "terminate_pid" -> "Process terminated."
           [] handler = "kill_pid" -> "Process killed."
           [] handler = "suspend_pid" -> "Process suspended."
           [] handler = "resume_pid" -> "Process resumed."
           [] OTHER -> "Set priority"
    ELSE IF outcome = "NoSuchProcess" /\ handler \in {"terminate_pid", "kill_pid"}
    THEN "Process does not exist."
    ELSE IF handler = "set_priority_by_value" THEN "Could not set priority"
    ELSE "Error"

\* a handler that re-samples only after a successful call
RefreshOnSuccessOnly(outcome) == outcome = "ok"

\* finally: self.refresh_processes() runs for every outcome
RefreshesAfter(outcome) == TRUE

\* ----------------------------------------------------------------- actions
EmptyText == [kind |-> "", pid |-> 0]
NoMenu == [row |-> 0, pid |-> 0]
NoCall == [handler |-> "none", pid |-> 0, label |-> "", outcome |-> "none",
           message |-> "none", nice_arg |-> None, refreshes |-> 0, path |-> None,
           requests |-> <<>>, alive_after |-> FALSE, victim |-> None,
           sampled |-> None]
Users == << <<"u">> >>

Running == ~crashed

\* widgets that stay empty once a snapshot has failed
TakeWidgetsSticky(r) ==
    /\ proc_table' = IF sample.failed THEN <<>> ELSE r.table
    /\ selected' = IF sample.failed THEN 0 ELSE r.selected
    /\ details_text' = r.details
    /\ proc_chart' = r.chart
    /\ selected_pid' = r.selected_pid
    /\ sample' = [failed |-> r.failed, prev_failed |-> sample.failed,
                   raised |-> r.raised]

\* the widgets take the result r of a refresh_processes call
TakeWidgets(r) ==
    /\ proc_table' = r.table
    /\ selected' = r.selected
    /\ details_text' = r.details
    /\ proc_chart' = r.chart
    /\ selected_pid' = r.selected_pid
    /\ sample' = [failed |-> r.failed, prev_failed |-> sample.failed,
                   raised |-> r.raised]

\* a refresh_processes call that is the whole handler
TakeRefresh(r) ==
    /\ TakeWidgets(r)
    /\ crashed' = r.raised

\* the state TaskManager.__init__ leaves: every table empty, then the
\* initial refresh_processes of init_process_tab and refresh_users
Constructed(ps, plat) ==
    LET r == refresh_processes(<<>>, 0, EmptyText, EmptyChart, <<>>, ps, TRUE, 0)
    IN  /\ procs = ps
        /\ platform = plat
        /\ provider_ok = TRUE
        /\ users_ok = TRUE
        /\ search_text = <<>>
        /\ proc_table = r.table
        /\ selected = r.selected
        /\ details_text = r.details
        /\ proc_chart = r.chart
        /\ selected_pid = r.selected_pid
        /\ sample = [failed |-> r.failed, prev_failed |-> FALSE, raised |-> r.raised]
        /\ crashed = r.raised
        /\ users_table = Users
        /\ history_table = <<>>
        /\ history_log = <<>>
        /\ now = 0
        /\ pc = "idle"
        /\ menu = NoMenu
        /\ pending = NoCall
        /\ ret = NoCall
        /\ last = "init"
        /\ graph = [x_data |-> <<>>, cpu_data |-> <<>>, mem_data |-> <<>>]
        /\ graph_n = 0
        /\ chart_n = 0
        /\ basic_graph = [x_data |-> <<>>, y_data |-> <<>>]
        /\ basic_n = 0

\* the Refresh button: refresh_processes
RefreshClicked ==
    /\ Running /\ pc = "idle"
    /\ TakeRefresh(refresh_processes(proc_table, selected, details_text, proc_chart,
                                     search_text, procs, provider_ok, now))
    /\ last' = "refresh_processes"
    /\ ret' = NoCall
    /\ UNCHANGED <<osVars, search_text, users_table, histVars, now, ctlVars, graphVars>>

\* search_edit.textChanged: the text changes and refresh_processes runs
SearchEdited(text) ==
    /\ Running /\ pc = "idle"
    /\ text # search_text
    /\ search_text' = text
    /\ TakeRefresh(refresh_processes(proc_table, selected, details_text, proc_chart,
                                     text, procs, provider_ok, now))
    /\ last' = "refresh_processes"
    /\ ret' = NoCall
    /\ UNCHANGED <<osVars, users_table, histVars, now, ctlVars, graphVars>>

\* ---------------------------------------------- SpecFilter: filter and sort
SearchChars == {"a", "B", " ", "1"}

AllProfiles == UNION {FilterProfiles(pid) : pid \in Pids}
Snapshots ==
    UNION {{ps \in [1..k -> AllProfiles] :
              \A i, j \in 1..k : i # j => ps[i].pid # ps[j].pid} : k \in 0..Cardinality(Pids)}

InitFilter == \E ps \in Snapshots : Constructed(ps, "Linux")

\* one keystroke in the search box: a character typed at the end, or backspace
Keystrokes(text, maxlen) ==
    {Append(text, c) : c \in IF Len(text) < maxlen THEN SearchChars ELSE {}}
      \cup (IF Len(text) > 0 THEN {SubSeq(text, 1, Len(text) - 1)} ELSE {})

NextFilter ==
    \/ \E text \in Keystrokes(search_text, MaxQLen) : SearchEdited(text)
    \/ RefreshClicked

SpecFilter == InitFilter /\ [][NextFilter]_vars

\* the table shows the result of a refresh_processes call on the current procs
Refreshed == last \in {"init", "refresh_processes"}

Rows == 1..Len(proc_table)

\* text contains q, case-insensitively
ContainsCI(text, q) == Contains(Lower(text), Lower(q))

\* a shown row's name, pid, user or command-line cell contains q
RowShowsText(row, q) ==
    \/ ContainsCI(row[ColName], q)
    \/ ContainsCI(row[ColPid], q)
    \/ ContainsCI(row[ColUser], q)
    \/ ContainsCI(row[ColCmdline], q)

RowFromSnapshot(row) == \E i \in 1..Len(procs) : RenderRow(procs[i]) = row

\* C1 as stated: after refresh_processes every shown row is a row of the
\* snapshot and contains the text typed in the search box, as typed,
\* case-insensitively, unless the typed text is empty.
C1_ShownRowsContainTypedText ==
    Refreshed =>
        \A r \in Rows :
            /\ RowFromSnapshot(proc_table[r])
            /\ (Len(search_text) = 0 \/ RowShowsText(proc_table[r], search_text))

\* C1 amended: after refresh_processes every shown row is a row of the
\* snapshot and contains the typed text with its leading and trailing
\* whitespace removed, case-insensitively, unless that stripped text is empty.
C1_ShownRowsContainStrippedText ==
    Refreshed =>
        \A r \in Rows :
            /\ RowFromSnapshot(proc_table[r])
            /\ (Len(Strip(search_text)) = 0
                \/ RowShowsText(proc_table[r], Strip(search_text)))

\* a padded, mixed-case text filtered some rows in and some rows out
C1_Witness ==
    /\ last = "refresh_processes"
    /\ search_text # Strip(search_text)
    /\ Strip(search_text) # Lower(Strip(search_text))
    /\ Len(proc_table) > 0
    /\ Len(proc_table) < Len(procs)

\* a snapshot process matches q in one of the four fields
ProcContains(p, q) ==
    \/ ContainsCI(OrEmpty(p.name), q)
    \/ ContainsCI(IntStr(p.pid), q)
    \/ ContainsCI(OrEmpty(p.username), q)
    \/ ContainsCI(Join(OrEmpty(p.cmdline)), q)

RowsOfPid(pid) == {r \in Rows : RowPid(proc_table, r) = Some(pid)}

\* C2: refresh_processes keeps every snapshot row that contains the filter
\* text (as typed, or stripped) case-insensitively, exactly once, and with
\* an empty filter the pid column is a permutation of the snapshot's pids.
C2_MatchingRowsKeptOnce ==
    (Refreshed /\ provider_ok) =>
        /\ \A i \in 1..Len(procs) :
              (ProcContains(procs[i], search_text)
               \/ ProcContains(procs[i], Strip(search_text)))
              => Cardinality(RowsOfPid(procs[i].pid)) = 1
        /\ Len(search_text) = 0 =>
              /\ Len(proc_table) = Len(procs)
              /\ \A i \in 1..Len(procs) : Cardinality(RowsOfPid(procs[i].pid)) = 1

\* a row was kept only because its user or command line matches, while
\* another row was dropped
C2_Witness ==
    /\ last = "refresh_processes"
    /\ Len(Strip(search_text)) > 0
    /\ Len(proc_table) < Len(procs)
    /\ \E i \in 1..Len(procs) :
          /\ ~ContainsCI(OrEmpty(procs[i].name), search_text)
          /\ ~ContainsCI(IntStr(procs[i].pid), search_text)
          /\ ProcContains(procs[i], search_text)
          /\ Cardinality(RowsOfPid(procs[i].pid)) = 1

\* position of pid in the snapshot enumeration
SnapIndex(pid) == CHOOSE i \in 1..Len(procs) : procs[i].pid = pid
RowCpu(r) == CpuKey(ProcOf(procs, RowPid(proc_table, r)[1]))

\* C3: after refresh_processes the rows are in non-increasing cpu_percent
\* order (missing counts as 0), rows of equal cpu_percent keep their snapshot
\* order, and [(1, 10), (2, 50), (3, 50)] unfiltered is shown as [2, 3, 1].
C3_StableCpuDescending ==
    (Refreshed /\ provider_ok) =>
        /\ \A r1, r2 \in Rows :
              r1 < r2 =>
                 /\ RowCpu(r1) >= RowCpu(r2)
                 /\ RowCpu(r1) = RowCpu(r2) =>
                       SnapIndex(RowPid(proc_table, r1)[1])
                         < SnapIndex(RowPid(proc_table, r2)[1])
        /\ ( /\ Len(search_text) = 0
             /\ [i \in 1..Len(procs) |-> <<procs[i].pid, procs[i].cpu_percent>>]
                  = << <<1, Some(10)>>, <<2, Some(50)>>, <<3, Some(50)>> >> )
           => TablePids(proc_table) = <<2, 3, 1>>

\* the scenario of the spec, and a tie between a missing and a zero cpu_percent
\* shown in snapshot order
C3_Witness ==
    /\ Refreshed
    /\ Len(search_text) = 0
    /\ [i \in 1..Len(procs) |-> <<procs[i].pid, procs[i].cpu_percent>>]
         = << <<1, Some(10)>>, <<2, Some(50)>>, <<3, Some(50)>> >>
    /\ TablePids(proc_table) = <<2, 3, 1>>

\* C13 as stated: every shown row renders each field the provider could not
\* supply with its default, the empty string for name, user, path, command
\* line, status and start and 0 for cpu, memory, threads, io bytes, gpu and
\* niceness, and renders a supplied field, a numeric 0 included, as its value.
C13_MissingFieldsRenderDefaults ==
    Refreshed =>
        \A r \in Rows :
            LET p == ProcOf(procs, RowPid(proc_table, r)[1])
                row == proc_table[r]
            IN  /\ row[ColName] = (IF IsNone(p.name) THEN <<>> ELSE p.name[1])
                /\ row[ColUser] = (IF IsNone(p.username) THEN <<>> ELSE p.username[1])
                /\ row[ColPath] = (IF IsNone(p.exe) THEN <<>> ELSE p.exe[1])
                /\ row[ColCmdline] =
                      (IF IsNone(p.cmdline) THEN <<>> ELSE Join(p.cmdline[1]))
                /\ row[ColStatus] = (IF IsNone(p.status) THEN <<>> ELSE p.status[1])
                /\ row[ColStart] =
                      (IF IsNone(p.create_time) THEN <<>> ELSE StartText(p.create_time[1]))
                /\ row[ColCpu] =
                      FloatStr(IF IsNone(p.cpu_percent) THEN 0 ELSE p.cpu_percent[1])
                /\ row[ColMem] =
                      FloatStr(IF IsNone(p.memory_percent) THEN 0 ELSE p.memory_percent[1])
                /\ row[ColThreads] =
                      IntStr(IF IsNone(p.num_threads) THEN 0 ELSE p.num_threads[1])
                /\ row[ColRead] =
                      (IF IsNone(p.io_counters) THEN <<"0", " ", "B">>
                       ELSE human_bytes(p.io_counters[1].read_bytes))
                /\ row[ColWrite] =
                      (IF IsNone(p.io_counters) THEN <<"0", " ", "B">>
                       ELSE human_bytes(p.io_counters[1].write_bytes))
                /\ row[ColGpu] = FloatStr(0)
                /\ row[ColNice] = IntStr(IF IsNone(p.nice) THEN 0 ELSE p.nice[1])

\* ---------------------------------------------------- timers and SpecChart
\* the timer wired to auto_refresh fires: refresh_processes, refresh_users,
\* update_gpu_label (GPUtil absent: a fixed label), refresh_history_log.
\* refresh_users calls psutil.users() outside any try block, after
\* users_table.setRowCount(0).
AutoRefresh ==
    LET r == refresh_processes(proc_table, selected, details_text, proc_chart,
                               search_text, procs, provider_ok, now + 1)
        users_raised == ~r.raised /\ ~users_ok
    IN  /\ Running
        /\ now' = now + 1
        /\ TakeWidgets(r)
        /\ crashed' = (r.raised \/ users_raised)
        /\ users_table' = IF r.raised THEN users_table
                          ELSE IF users_ok THEN Users ELSE <<>>
        /\ IF r.raised \/ users_raised
           THEN UNCHANGED histVars
           ELSE /\ history_table' =
                      refresh_history_log(history_table, procs, provider_ok, now + 1)
                /\ history_log' =
                      history_log \o HistoryAppended(procs, provider_ok, now + 1)
        /\ last' = "refresh_processes"
        /\ ret' = NoCall
        /\ UNCHANGED <<osVars, search_text, ctlVars, graphVars>>

\* perf_timer of git.py fires: graph.update_graph
PerfTimer ==
    /\ graph_n' = graph_n + 1
    /\ graph' = PerfGraph_update_graph(graph, SysCpu(graph_n + 1), SysMem(graph_n + 1),
                                       TimeText(graph_n + 1))
    /\ UNCHANGED <<osVars, tableVars, users_table, histVars, now, ctlVars, ret,
                   crashed, last, chart_n, basic_graph, basic_n>>

\* perf_timer of main.py fires: graph.update_graph
BasicPerfTimer ==
    /\ basic_n' = basic_n + 1
    /\ basic_graph' = BasicPerfGraph_update_graph(basic_graph, SysCpu(basic_n + 1),
                                                  TimeText(basic_n + 1))
    /\ UNCHANGED <<osVars, tableVars, users_table, histVars, now, ctlVars, ret,
                   crashed, last, chart_n, graph, graph_n>>

\* proc_chart.push with the sample of second chart_n + 1 after the last clear
ChartPushed ==
    /\ chart_n' = chart_n + 1
    /\ proc_chart' = MiniProcChart_push(proc_chart, SysCpu(chart_n + 1),
                                        SysMem(chart_n + 1), TimeText(chart_n + 1))
    /\ UNCHANGED <<osVars, search_text, proc_table, selected, details_text,
                   selected_pid, sample, users_table, histVars, now, ctlVars, ret,
                   crashed,
                   last, graph, graph_n, basic_graph, basic_n>>

\* proc_chart.clear
ChartCleared ==
    /\ chart_n > 0
    /\ chart_n' = 0
    /\ proc_chart' = MiniProcChart_clear
    /\ UNCHANGED <<osVars, search_text, proc_table, selected, details_text,
                   selected_pid, sample, users_table, histVars, now, ctlVars, ret,
                   crashed,
                   last, graph, graph_n, basic_graph, basic_n>>

InitChart == Constructed(<<>>, "Linux")

NextChart ==
    \/ (graph_n < MaxGraphPushes /\ PerfTimer)
    \/ (basic_n < MaxBasicPushes /\ BasicPerfTimer)
    \/ (chart_n < MaxChartPushes /\ ChartPushed)
    \/ ChartCleared

SpecChart == InitChart /\ [][NextChart]_vars

\* the labels of the last c of n pushes, in push order
LastLabels(n, c) == [i \in 1..c |-> TimeText(n - c + i)]
LastCpu(n, c) == [i \in 1..c |-> SysCpu(n - c + i)]
LastMem(n, c) == [i \in 1..c |-> SysMem(n - c + i)]

\* C5: a buffer that took more pushes than its capacity (and, for the mini
\* chart, no clear in between) holds exactly the capacity's worth of points,
\* the most recently pushed ones in push order; 41 pushes into the
\* capacity-40 graph leave 40 points without the first.
C5_BuffersKeepNewest ==
    /\ graph_n > GraphCap =>
          /\ graph.x_data = LastLabels(graph_n, GraphCap)
          /\ graph.cpu_data = LastCpu(graph_n, GraphCap)
          /\ graph.mem_data = LastMem(graph_n, GraphCap)
    /\ chart_n > ChartMaxlen =>
          /\ proc_chart.times = LastLabels(chart_n, ChartMaxlen)
          /\ proc_chart.cpu_data = LastCpu(chart_n, ChartMaxlen)
          /\ proc_chart.mem_data = LastMem(chart_n, ChartMaxlen)
    /\ basic_n > BasicGraphCap =>
          /\ basic_graph.x_data = LastLabels(basic_n, BasicGraphCap)
          /\ basic_graph.y_data = LastCpu(basic_n, BasicGraphCap)
    /\ graph_n = 41 =>
          /\ Len(graph.x_data) = 40
          /\ \A i \in 1..Len(graph.x_data) : graph.x_data[i] # TimeText(1)

\* every buffer has overflowed, the graph by exactly one point
C5_Witness ==
    /\ graph_n = 41 /\ Len(graph.x_data) = 40
    /\ chart_n > ChartMaxlen /\ Len(proc_chart.times) = ChartMaxlen
    /\ basic_n > BasicGraphCap /\ Len(basic_graph.x_data) = BasicGraphCap

\* the push a label "00:MM:SS" was made by: pushes are one second apart
PushOf(label) ==
    60 * (10 * DigitVal(label[4]) + DigitVal(label[5]))
      + 10 * DigitVal(label[7]) + DigitVal(label[8])

\* three series of equal length at most cap whose i-th elements are the
\* label, cpu and memory reading of one and the same push
SeriesAligned(xs, cpus, mems, cap, pushes) ==
    /\ Len(xs) = Len(cpus) /\ Len(cpus) = Len(mems)
    /\ Len(xs) <= cap
    /\ \A i \in 1..Len(xs) :
          LET n == PushOf(xs[i])
          IN  n \in 1..pushes /\ cpus[i] = SysCpu(n) /\ mems[i] = SysMem(n)

\* C16: in every state reached by pushes and clears the series of
\* MiniProcChart (times, cpu_data, mem_data) and of PerfGraph (x_data,
\* cpu_data, mem_data) have one length, at most the capacity, and the i-th
\* element of each series comes from the same push.
C16_SeriesStayAligned ==
    /\ SeriesAligned(proc_chart.times, proc_chart.cpu_data, proc_chart.mem_data,
                     ChartMaxlen, chart_n)
    /\ SeriesAligned(graph.x_data, graph.cpu_data, graph.mem_data, GraphCap, graph_n)

\* both buffers have dropped points and hold a full, aligned window
C16_Witness ==
    /\ chart_n > ChartMaxlen /\ Len(proc_chart.mem_data) = ChartMaxlen
    /\ proc_chart.cpu_data[1] = SysCpu(chart_n - ChartMaxlen + 1)
    /\ graph_n > GraphCap /\ Len(graph.cpu_data) = GraphCap
    /\ graph.mem_data[1] = SysMem(graph_n - GraphCap + 1)

\* ------------------------------------------------------------ SpecHistory
\* six processes; cpu_percent repeats and is missing for one
HistProc(pid) ==
    Proc(pid, Some(<<"p">>), Some(<<"u">>), Some(<< <<"p">> >>),
         IF pid = 4 THEN None ELSE Some((pid % 3) * 10), Some(1), Some(0), FALSE)
HistSnapshots == {[i \in 1..k |-> HistProc(i)] : k \in 0..6}

InitHistory == \E ps \in HistSnapshots : Constructed(ps, "Linux")

NextHistory == now < MaxHistTicks /\ AutoRefresh

SpecHistory == InitHistory /\ [][NextHistory]_vars

\* C6 as stated: the history table never holds more than 500 rows.
C6_HistoryWithinCap == Len(history_table) <= HistoryCap

\* C7: the history table is a contiguous suffix of all rows ever appended,
\* in append order: no row is evicted while an older one is still shown.
C7_HistoryIsSuffixOfLog ==
    /\ Len(history_table) <= Len(history_log)
    /\ history_table = SubSeq(history_log, Len(history_log) - Len(history_table) + 1,
                              Len(history_log))

\* rows have been evicted
C7_Witness ==
    /\ now > 0
    /\ Len(history_log) > HistoryCap
    /\ Len(history_table) < Len(history_log)

\* position in the snapshot of the process a history row was written for
HistIndex(row) == CHOOSE i \in 1..Len(procs) : IntStr(procs[i].pid) = row.pid
\* cpu_percent with a missing value counted as 0
HistCpu(i) == IF IsNone(procs[i].cpu_percent) THEN 0 ELSE procs[i].cpu_percent[1]
\* process i ranks before process j: higher cpu, or equal cpu and enumerated first
RanksBefore(i, j) == HistCpu(i) > HistCpu(j) \/ (HistCpu(i) = HistCpu(j) /\ i < j)

\* C15: each refresh_history_log call on a snapshot of n processes appends
\* exactly min(5, n) rows, stamped with the time of the call, one for each of
\* the 5 processes of highest cpu_percent (missing counted as 0, ties in
\* enumeration order), in descending cpu order.
C15_TopFiveAppended ==
    LET n == Len(procs)
        m == IF n < 5 THEN n ELSE 5
        total == Len(history_log)
        added == SubSeq(history_log, total - m + 1, total)
    IN  /\ total = now * m
        /\ now > 0 =>
              /\ \A i \in 1..m :
                    /\ added[i].time = TickTime(now)
                    /\ \E k \in 1..n : IntStr(procs[k].pid) = added[i].pid
              /\ \A i, j \in 1..m :
                    i < j => RanksBefore(HistIndex(added[i]), HistIndex(added[j]))
              /\ \A k \in 1..n :
                    (\A i \in 1..m : HistIndex(added[i]) # k) =>
                        \A i \in 1..m : RanksBefore(HistIndex(added[i]), k)

\* a tick logged five of six processes, two of them with equal cpu_percent
C15_Witness ==
    /\ now > 0
    /\ Len(procs) = 6
    /\ Len(history_log) = 5 * now
    /\ history_log[Len(history_log) - 4].cpu = history_log[Len(history_log) - 3].cpu

\* ------------------------------------------------------------- the OS acts
UserPids == {2}

InsertByPid(ps, p) ==
    SelectSeq(ps, LAMBDA x : x.pid < p.pid) \o <<p>>
      \o SelectSeq(ps, LAMBDA x : x.pid > p.pid)

\* a user process exits on its own
ProcExits(pid) ==
    /\ Running
    /\ Alive(procs, pid)
    /\ procs' = Without(procs, pid)
    /\ last' = "os"
    /\ ret' = NoCall
    /\ UNCHANGED <<platform, provider_ok, users_ok, tableVars, users_table, histVars, now,
                   ctlVars, crashed, graphVars>>

\* a user process starts
ProcStarts(pid) ==
    /\ Running
    /\ ~Alive(procs, pid)
    /\ procs' = InsertByPid(procs, BootProfile(pid))
    /\ last' = "os"
    /\ ret' = NoCall
    /\ UNCHANGED <<platform, provider_ok, users_ok, tableVars, users_table, histVars, now,
                   ctlVars, crashed, graphVars>>

\* ---------------------------------------------------------- the user acts
\* the selection moves to row r: itemSelectionChanged -> on_proc_selected
SelectRow(r) ==
    LET st == update_selected_details(
                  [details |-> details_text, chart |-> proc_chart, raised |-> FALSE],
                  proc_table, r, procs, now)
    IN  /\ selected' = r
        /\ details_text' = st.details
        /\ proc_chart' = st.chart
        /\ crashed' = st.raised

\* a click on a row that is not selected
RowClicked(r) ==
    /\ Running /\ pc = "idle"
    /\ r \in Rows /\ r # selected
    /\ SelectRow(r)
    /\ last' = "ui"
    /\ ret' = NoCall
    /\ UNCHANGED <<osVars, search_text, proc_table, selected_pid, sample, users_table,
                   histVars, now, ctlVars, graphVars>>

\* The process instance psutil.Process(pid) resolves to now, named by its
\* start time: a pid alone does not tell a process from a later one that
\* got the same pid.
InstanceOf(ps, pid) ==
    IF Alive(ps, pid) THEN Some(StartText(ProcOf(ps, pid).create_time[1])) ELSE None

\* the process instance the table row with this pid was sampled from: its
\* Start cell
SampledInstance(table, pid) ==
    LET rs == {r \in 1..Len(table) : RowPid(table, r) = Some(pid)}
    IN  IF rs = {} THEN None ELSE Some(table[CHOOSE r \in rs : TRUE][ColStart])

\* a control handler makes its OS call and opens its message box
StartCall(handler, pid, label) ==
    \E exited \in BOOLEAN :
        LET c == OsCall(handler, pid, label, procs, platform, exited)
        IN  /\ procs' = c.procs
            /\ pending' = [handler |-> handler, pid |-> pid, label |-> label,
                           outcome |-> c.outcome,
                           message |-> MessageFor(handler, c.outcome),
                           nice_arg |-> c.nice_arg, refreshes |-> 0, path |-> None,
                           requests |-> c.requests,
                           alive_after |-> Alive(c.procs, pid),
                           victim |-> IF c.outcome \in {"ok", "TimeoutExpired"}
                                      THEN InstanceOf(procs, pid) ELSE None,
                           sampled |-> SampledInstance(proc_table, pid)]
            /\ pc' = "msgbox"
            /\ menu' = NoMenu
            /\ last' = "ui"
            /\ ret' = NoCall
            /\ UNCHANGED <<platform, provider_ok, users_ok, tableVars, users_table, histVars,
                           now, crashed, graphVars>>

\* the Terminate, Kill, Suspend and Resume buttons: *_selected -> *_pid
ButtonClicked(handler) ==
    /\ Running /\ pc = "idle"
    /\ selected # 0
    /\ StartCall(handler, RowPid(proc_table, selected)[1], "")

\* the message box is closed: the handler's finally block runs and it returns
MsgBoxClosed ==
    /\ Running /\ pc = "msgbox"
    /\ IF RefreshesAfter(pending.outcome)
       THEN /\ TakeRefresh(refresh_processes(proc_table, selected, details_text,
                                             proc_chart, search_text, procs,
                                             provider_ok, now))
            /\ ret' = [pending EXCEPT !.refreshes = 1]
            /\ last' = "refresh_processes"
       ELSE /\ ret' = pending
            /\ last' = "ui"
            /\ UNCHANGED <<proc_table, selected, details_text, proc_chart,
                           selected_pid, sample, crashed>>
    /\ pc' = "idle"
    /\ pending' = NoCall
    /\ UNCHANGED <<osVars, search_text, users_table, histVars, now, menu, graphVars>>

\* right click on row r: the row is selected if it was not, then
\* process_context_menu reads the row and its pid and waits in menu.exec_
ContextMenuRequested(r) ==
    /\ Running /\ pc = "idle"
    /\ r \in Rows
    /\ IF r # selected THEN SelectRow(r)
       ELSE UNCHANGED <<selected, details_text, proc_chart, crashed>>
    /\ IF crashed' THEN UNCHANGED <<pc, menu>>
       ELSE /\ pc' = "menu"
            /\ menu' = [row |-> r, pid |-> RowPid(proc_table, r)[1]]
    /\ last' = "ui"
    /\ ret' = NoCall
    /\ UNCHANGED <<osVars, search_text, proc_table, selected_pid, sample, users_table,
                   histVars, now, pending, graphVars>>

MenuHandler(item) ==
    CASE item = "Terminate" -> "terminate_pid"
      [] item = "Kill" -> "kill_pid"
      [] item = "Suspend" -> "suspend_pid"
      [] item = "Resume" -> "resume_pid"
      [] OTHER -> "set_priority_by_value"

ControlItems == {"Terminate", "Kill", "Suspend", "Resume"}

\* an entry of the open menu that starts a control handler is chosen
MenuControlChosen(item) ==
    /\ Running /\ pc = "menu"
    /\ StartCall(MenuHandler(item), menu.pid, IF item \in Labels THEN item ELSE "")

\* Open File Location, Copy PID, or the menu is dismissed
MenuOtherChosen(item) ==
    /\ Running /\ pc = "menu"
    /\ ret' = CASE item = "Open File Location" ->
                     [NoCall EXCEPT !.handler = "open_file_location", !.pid = menu.pid,
                        !.path = IF menu.row <= Len(proc_table)
                                 THEN Some(proc_table[menu.row][ColPath]) ELSE Some(<<>>)]
                 [] item = "Copy PID" ->
                     [NoCall EXCEPT !.handler = "copy_pid", !.pid = menu.pid]
                 [] OTHER -> NoCall
    /\ pc' = "idle"
    /\ menu' = NoMenu
    /\ last' = "ui"
    /\ UNCHANGED <<osVars, tableVars, users_table, histVars, now, pending, crashed,
                   graphVars>>

\* -------------------------------------------------------------------- Spec
MainTexts == {<<>>, <<"1">>}
MainLabels == {"Low", "Normal"}

\* macOS: psutil raises AccessDenied when another user's process is queried
Init == Constructed(<<BootProfile(1), BootProfile(2), BootProfile(3)>>, "Darwin")

Next ==
    \/ \E pid \in UserPids : ProcExits(pid)
    \/ \E pid \in UserPids : ProcStarts(pid)
    \/ RefreshClicked
    \/ \E text \in MainTexts : SearchEdited(text)
    \/ \E r \in Rows : (Len(proc_chart.times) < MaxClicks /\ RowClicked(r))
    \/ \E h \in {"terminate_pid", "kill_pid", "suspend_pid", "resume_pid"} :
          ButtonClicked(h)
    \/ \E r \in Rows : (Len(proc_chart.times) < MaxClicks /\ ContextMenuRequested(r))
    \/ \E item \in ControlItems \cup MainLabels : MenuControlChosen(item)
    \/ \E item \in {"Open File Location", "Copy PID", "dismiss"} : MenuOtherChosen(item)
    \/ MsgBoxClosed
    \/ (now < MaxTicks /\ AutoRefresh)

Spec == Init /\ [][Next]_vars

ControlHandlers == {"terminate_pid", "kill_pid", "suspend_pid", "resume_pid",
                    "set_priority_by_value"}

\* C4 as stated: after refresh_processes, the pid that was selected before
\* the call is selected again if it is the pid of a row of the new table, and
\* no row is selected if it is not.
C4_SelectionFollowsPid ==
    (last = "refresh_processes" /\ ~IsNone(selected_pid)) =>
        IF \E r \in Rows : RowPid(proc_table, r) = selected_pid
        THEN selected # 0 /\ RowPid(proc_table, selected) = selected_pid
        ELSE selected = 0

\* C8 as stated: terminate_pid or kill_pid on a pid without a process shows
\* 'Process does not exist.' and returns, its re-sample included, without an
\* exception escaping.
C8_MissingPidReportedNoFault ==
    (ret.handler \in {"terminate_pid", "kill_pid"} /\ ret.outcome = "NoSuchProcess") =>
        /\ ret.message = "Process does not exist."
        /\ ~crashed

\* C10: when terminate_pid, kill_pid, suspend_pid, resume_pid or
\* set_priority_by_value returns, it has called refresh_processes exactly
\* once, whatever the outcome of the OS call.
C10_OneRefreshPerControlCall ==
    ret.handler \in ControlHandlers =>
        /\ ret.refreshes = 1
        /\ last = "refresh_processes"

\* a failed call (the process ignored terminate for 3 s) was followed by the
\* re-sample
C10_Witness ==
    /\ ret.handler = "terminate_pid"
    /\ ret.outcome = "TimeoutExpired"
    /\ ret.refreshes = 1
    /\ Alive(procs, ret.pid)

\* C11: terminate_pid never calls p.kill(). When the 3 s wait after
\* p.terminate() times out the handler shows an error and the process is
\* alive at the end of the call; 'Process terminated.' is shown only when
\* the process is gone at the end of the wait.
C11_TerminateNeverKills ==
    ret.handler = "terminate_pid" =>
        /\ \A i \in 1..Len(ret.requests) : ret.requests[i] = "terminate"
        /\ ret.outcome = "TimeoutExpired" => (ret.message = "Error" /\ ret.alive_after)
        /\ ret.message = "Process terminated." =>
               (ret.outcome = "ok" /\ ~ret.alive_after)

\* terminate_pid returned after a timed-out wait and the process still runs
C11_Witness ==
    /\ ret.handler = "terminate_pid"
    /\ ret.outcome = "TimeoutExpired"
    /\ ret.requests = <<"terminate">>
    /\ ret.message = "Error"
    /\ Alive(procs, ret.pid)

\* the cpu reading proc_chart gets when it samples process pid
CpuSampleOf(pid) == BootProfile(pid).cpu_percent[1]

\* C17 as stated: all points of proc_chart were sampled from the one pid
\* that is selected: none is left from a pid selected before, and the chart
\* is empty when no row is selected.
C17_ChartHoldsOnePid ==
    ~crashed =>
        IF selected = 0 THEN Len(proc_chart.times) = 0
        ELSE \A i \in 1..Len(proc_chart.cpu_data) :
                 proc_chart.cpu_data[i] = CpuSampleOf(RowPid(proc_table, selected)[1])

\* C18 as stated: auto_refresh starts only when no other handler is
\* mid-execution: not while a control handler waits in its modal message box
\* between its OS call and its final refresh_processes, and not while
\* process_context_menu waits in menu.exec_.
C18_TicksOnlyWhenIdle == [][now' # now => pc = "idle"]_vars

\* the executable path of process pid as the table shows it
PathOf(pid) == OrEmpty(BootProfile(pid).exe)

\* C21 as stated: 'Open File Location' chosen from the context menu opens the
\* executable path of the pid whose row was under the cursor when the menu
\* opened, also when the table was rebuilt while the menu was open.
C21_MenuActsOnClickedProcess ==
    ret.handler = "open_file_location" => ret.path = Some(PathOf(ret.pid))

\* a step in which refresh_processes ran and returned with the row of the
\* same live pid selected as before
SelectionKept ==
    /\ last' = "refresh_processes" /\ ~crashed'
    /\ selected # 0 /\ selected' # 0
    /\ RowPid(proc_table', selected') = RowPid(proc_table, selected)
    /\ Alive(procs, RowPid(proc_table, selected)[1])

\* the chart after one more point: the old points, less the oldest when
\* the chart was full, then one new point
GrewByOne(old, new) ==
    LET kept == IF Len(old) < ChartMaxlen THEN old ELSE Tail(old)
    IN  Len(new) = Len(kept) + 1 /\ SubSeq(new, 1, Len(kept)) = kept

\* C22 as stated: a refresh_processes call across which the same live
\* process stays selected does not clear proc_chart and adds exactly one
\* point to it, up to the capacity of 30.
C22_ChartGrowsByOnePerRefresh ==
    [][SelectionKept =>
          /\ GrewByOne(proc_chart.times, proc_chart'.times)
          /\ GrewByOne(proc_chart.cpu_data, proc_chart'.cpu_data)
          /\ GrewByOne(proc_chart.mem_data, proc_chart'.mem_data)]_vars

\* ------------------------------------------------------------ SpecProvider
\* psutil.process_iter starts or stops failing as a whole
ProviderChanges ==
    /\ Running /\ pc = "idle"
    /\ provider_ok' = ~provider_ok
    /\ last' = "os"
    /\ ret' = NoCall
    /\ UNCHANGED <<procs, platform, users_ok, tableVars, users_table, histVars, now,
                   ctlVars, crashed, graphVars>>

\* psutil.users() starts or stops failing
UsersChanges ==
    /\ Running /\ pc = "idle"
    /\ users_ok' = ~users_ok
    /\ last' = "os"
    /\ ret' = NoCall
    /\ UNCHANGED <<procs, platform, provider_ok, tableVars, users_table, histVars, now,
                   ctlVars, crashed, graphVars>>

NextProvider ==
    \/ ProviderChanges
    \/ UsersChanges
    \/ \E pid \in UserPids : ProcExits(pid)
    \/ \E pid \in UserPids : ProcStarts(pid)
    \/ RefreshClicked
    \/ \E text \in MainTexts : SearchEdited(text)
    \/ \E r \in Rows : (Len(proc_chart.times) < MaxClicks /\ RowClicked(r))
    \/ (now < MaxProviderTicks /\ AutoRefresh)

SpecProvider == Init /\ [][NextProvider]_vars

\* C12: after a refresh_processes call whose process_iter failed as a whole
\* the process table has no rows, no row is selected, and the call did not
\* raise.
C12_ProviderFailureEmptiesTable ==
    (last = "refresh_processes" /\ sample.failed) =>
        /\ Len(proc_table) = 0
        /\ selected = 0
        /\ ~sample.raised

\* the enumeration failed while processes ran and a row was selected
C12_Witness ==
    /\ last = "refresh_processes" /\ sample.failed
    /\ Len(procs) > 0
    /\ ~IsNone(selected_pid)
    /\ Len(proc_table) = 0

\* C14 as stated: no exception escapes a timer tick: whatever the provider
\* does, a step in which auto_refresh runs ends with the event loop running.
C14_TickNeverRaises == [][now' # now => ~crashed']_vars

\* C19: the first refresh_processes whose snapshot succeeds after one whose
\* snapshot failed shows every process of the new snapshot that matches the
\* filter, once, in descending cpu order with ties in snapshot order, and
\* does not raise: the table recovers with no retry and no manual action.
C19_TableHealsAfterFailure ==
    (last = "refresh_processes" /\ sample.prev_failed /\ ~sample.failed) =>
        /\ ~sample.raised
        /\ \A i \in 1..Len(procs) :
              (Len(Strip(search_text)) = 0 \/ ProcContains(procs[i], Strip(search_text)))
              => Cardinality(RowsOfPid(procs[i].pid)) = 1
        /\ \A r1, r2 \in Rows :
              r1 < r2 =>
                 /\ RowCpu(r1) >= RowCpu(r2)
                 /\ RowCpu(r1) = RowCpu(r2) =>
                       SnapIndex(RowPid(proc_table, r1)[1])
                         < SnapIndex(RowPid(proc_table, r2)[1])

\* a tick failed and emptied the table; the next tick shows all three processes
C19_Witness ==
    /\ last = "refresh_processes" /\ sample.prev_failed /\ ~sample.failed
    /\ now = 2
    /\ Len(procs) = 3
    /\ TablePids(proc_table) = <<2, 3, 1>>

\* --------------------------------------------------------------- SpecReuse
\* the process that takes over a pid: another program, started later
ReuseProfile(pid) ==
    [BootProfile(pid) EXCEPT !.name = Some(<<"n","e","w">>), !.create_time = Some(9)]

\* a user process exits and the OS gives its pid to a new process
PidReused(pid) ==
    /\ Running
    /\ Alive(procs, pid)
    /\ ProcOf(procs, pid) = BootProfile(pid)
    /\ procs' = InsertByPid(Without(procs, pid), ReuseProfile(pid))
    /\ last' = "os"
    /\ ret' = NoCall
    /\ UNCHANGED <<platform, provider_ok, users_ok, tableVars, users_table, histVars,
                   now, ctlVars, crashed, graphVars>>

NextReuse ==
    \/ \E pid \in UserPids : PidReused(pid)
    \/ RefreshClicked
    \/ \E r \in Rows : (Len(proc_chart.times) < MaxClicks /\ RowClicked(r))
    \/ \E h \in {"terminate_pid", "kill_pid", "suspend_pid", "resume_pid"} :
          ButtonClicked(h)
    \/ \E r \in Rows : (Len(proc_chart.times) < MaxClicks /\ ContextMenuRequested(r))
    \/ \E item \in ControlItems \cup MainLabels : MenuControlChosen(item)
    \/ MenuOtherChosen("dismiss")
    \/ MsgBoxClosed

SpecReuse == Init /\ [][NextReuse]_vars

\* C20 as stated: a control call started from a table row acts only on the
\* process instance the row was sampled from: a process that got the pid
\* after that one exited is not terminated, killed, suspended, resumed or
\* reniced.
C20_ControlHitsSampledInstance ==
    (ret.handler \in ControlHandlers /\ ~IsNone(ret.victim)) =>
        ret.victim = ret.sampled

\* ------------------------------------------------------------ SpecPriority
\* set_priority_by_value called with any label, on either platform
AllLabels == Labels \cup {"Bogus"}

WithNormalPriority(ps, plat) ==
    [i \in 1..Len(ps) |->
        IF ps[i].denied THEN ps[i]
        ELSE [ps[i] EXCEPT !.nice = Some(PriorityValue(plat, "Normal"))]]

InitPriority ==
    \E plat \in {"Linux", "Windows"} :
        Constructed(WithNormalPriority(<<BootProfile(1), BootProfile(2), BootProfile(3)>>,
                                       plat), plat)

PriorityCalled(pid, label) ==
    /\ Running /\ pc = "idle"
    /\ StartCall("set_priority_by_value", pid, label)

NextPriority ==
    \/ \E pid \in Pids \cup {9}, label \in AllLabels : PriorityCalled(pid, label)
    \/ MsgBoxClosed

SpecPriority == InitPriority /\ [][NextPriority]_vars

\* C9 as stated: a label other than Low, Normal, High, Realtime sets the
\* Normal priority: niceness 0 on a Unix-style platform, the normal priority
\* class on Windows.
C9_UnknownLabelSetsNormal ==
    (ret.handler = "set_priority_by_value" /\ ret.label \notin Labels
       /\ ret.outcome = "ok") =>
        /\ ret.nice_arg = Some(IF platform = "Windows" THEN 32 ELSE 0)
        /\ ProcOf(procs, ret.pid).nice = ret.nice_arg

====
